---- MODULE Spec2Model ----
(***************************************************************************)
(* Model of the tech99 frontend exercises: the latest-price reduction of   *)
(* the swap form (byLatestPerCurrency) and of the simple converter         *)
(* (getLatestPrices), the swap form SwapApp with its mock balances, the     *)
(* SimpleCurrencyConverter with its session-storage history, the three     *)
(* sum_to_n functions and the balance list of WalletPage.                  *)
(*                                                                         *)
(* JavaScript numbers are modelled as exact rationals extended with NaN,   *)
(* +Infinity and -Infinity (records [k, n, d, en, ed]); rounding of IEEE   *)
(* doubles and the sign of zero are not modelled.                          *)
(***************************************************************************)
EXTENDS Integers, Sequences, FiniteSets, TLC

VARIABLES
    app,          \* which component is mounted: "reduce" harness, "SwapApp", "Converter",
                  \* "sum" harness, "WalletPage"
    op,           \* the last user gesture or callback that ran (ghost)
    \* ---- reduction harness
    rows,         \* the raw feed handed to the two reductions
    latestA,      \* byLatestPerCurrency(rows)
    latestB,      \* getLatestPrices(rows)
    \* ---- SwapApp (part_003:66-192)
    tokens, loading, error, fromSymbol, toSymbol, amountIn, slippage,
    balances, submitting, toast,
    pending,      \* the closure of a submit() suspended in its 1100 ms await
    nSwaps,       \* completed swaps (ghost, bounds the run)
    \* ---- SimpleCurrencyConverter (part_003:580-682)
    cTokens, cLoading, cError, fromCurrency, toCurrency, amount, result,
    history, storage,
    nConv,        \* completed conversions; also the clock read by new Date() (ghost)
    clearedAt,    \* the value of nConv when the history was last cleared (ghost)
    \* ---- sum_to_n (part_001)
    num,          \* the argument
    sumA, sumB, sumC,  \* sum_to_n_a(num), sum_to_n_b(num), sum_to_n_c(num)
    \* ---- WalletPage (part_002)
    wBalances,    \* useWalletBalances()
    sortedBalances

redVars  == <<rows, latestA, latestB>>
swapVars == <<tokens, loading, error, fromSymbol, toSymbol, amountIn, slippage,
              balances, submitting, toast, pending, nSwaps>>
convVars == <<cTokens, cLoading, cError, fromCurrency, toCurrency, amount, result,
              history, storage, nConv, clearedAt>>
sumVars  == <<num, sumA, sumB, sumC>>
pageVars == <<wBalances, sortedBalances>>
auxVars  == <<sumVars, pageVars>>
vars == <<app, op, redVars, swapVars, convVars, auxVars>>

-----------------------------------------------------------------------------
(* JavaScript numbers *)

Abs(x) == IF x < 0 THEN -x ELSE x

RECURSIVE GCD(_, _)
GCD(a, b) == IF b = 0 THEN a ELSE GCD(b, a % b)

\* a fraction <<n, d>> in lowest terms, d > 0
Frac(n, d) ==
    LET s == IF d < 0 THEN -1 ELSE 1
        g == GCD(Abs(n), Abs(d))
    IN <<(s * n) \div g, (s * d) \div g>>

FracMul(a, b) ==
    LET g1 == GCD(Abs(a[1]), b[2])
        g2 == GCD(Abs(b[1]), a[2])
    IN Frac((a[1] \div g1) * (b[1] \div g2), (a[2] \div g2) * (b[2] \div g1))

FracAdd(a, b) ==
    LET g == GCD(a[2], b[2])
    IN Frac(a[1] * (b[2] \div g) + b[1] * (a[2] \div g), (a[2] \div g) * b[2])

\* A finite number is n/d + (en/ed) * 1e-12: the second component carries the
\* amounts of the order of the epsilon of amountTooHigh, which the integers of
\* the model cannot hold as a fraction. Products of two second components
\* (1e-24) are dropped.
FinEps(m, e) == [k |-> "fin", n |-> m[1], d |-> m[2], en |-> e[1], ed |-> e[2]]
Main(x) == <<x.n, x.d>>
Eps(x)  == <<x.en, x.ed>>

\* a finite number n/d in lowest terms, d > 0
Fin(n, d) == FinEps(Frac(n, d), <<0, 1>>)

Num(n)  == [k |-> "fin", n |-> n, d |-> 1, en |-> 0, ed |-> 1]
NaN     == [k |-> "nan", n |-> 0, d |-> 1, en |-> 0, ed |-> 1]
PosInf  == [k |-> "inf", n |-> 1, d |-> 1, en |-> 0, ed |-> 1]
NegInf  == [k |-> "inf", n |-> -1, d |-> 1, en |-> 0, ed |-> 1]
\* null / undefined where a number is expected (JSON null, a missing value)
Null    == [k |-> "null", n |-> 0, d |-> 1, en |-> 0, ed |-> 1]

Sign(x) ==
    IF x.n < 0 THEN -1 ELSE IF x.n > 0 THEN 1
    ELSE IF x.en < 0 THEN -1 ELSE IF x.en > 0 THEN 1 ELSE 0
InfOf(s) == IF s < 0 THEN NegInf ELSE PosInf

isFinite(x) == x.k = "fin"

\* the order of two fractions an/ad and bn/bd (ad, bd > 0): -1, 0 or 1, by
\* their continued fractions, so that no product leaves the integer range
RECURSIVE CmpFrac(_, _, _, _)
CmpFrac(an, ad, bn, bd) ==
    LET qa == an \div ad
        qb == bn \div bd
        ra == an % ad
        rb == bn % bd
    IN CASE qa < qb -> -1
         [] qa > qb -> 1
         [] ra = 0 /\ rb = 0 -> 0
         [] ra = 0 -> -1
         [] rb = 0 -> 1
         [] OTHER -> CmpFrac(bd, rb, ad, ra)

\* the order of two finite numbers: by n/d, then by the 1e-12 component
CmpFin(a, b) ==
    LET c == CmpFrac(a.n, a.d, b.n, b.d)
    IN IF c # 0 THEN c ELSE CmpFrac(a.en, a.ed, b.en, b.ed)

\* a > b on numbers: false as soon as one side is NaN
FGt(a, b) ==
    CASE a.k = "nan" \/ b.k = "nan" -> FALSE
      [] a.k = "inf" /\ b.k = "inf" -> a.n > b.n
      [] a.k = "inf" -> a.n > 0
      [] b.k = "inf" -> b.n < 0
      [] OTHER -> CmpFin(a, b) = 1

FLe(a, b) ==
    CASE a.k = "nan" \/ b.k = "nan" -> FALSE
      [] OTHER -> ~FGt(a, b)

FMul(a, b) ==
    CASE a.k = "nan" \/ b.k = "nan" -> NaN
      [] a.k = "inf" \/ b.k = "inf" ->
            IF Sign(a) * Sign(b) = 0 THEN NaN ELSE InfOf(Sign(a) * Sign(b))
      [] OTHER ->
            FinEps(FracMul(Main(a), Main(b)),
                   FracAdd(FracMul(Main(a), Eps(b)), FracMul(Main(b), Eps(a))))

\* a / b; the divisors of the program (prices, 100, 10_000) have no 1e-12
\* component
FDiv(a, b) ==
    CASE a.k = "nan" \/ b.k = "nan" -> NaN
      [] a.k = "inf" /\ b.k = "inf" -> NaN
      [] a.k = "inf" -> InfOf(Sign(a) * (IF Sign(b) < 0 THEN -1 ELSE 1))
      [] b.k = "inf" -> Num(0)
      [] b.n = 0 -> IF Sign(a) = 0 THEN NaN ELSE InfOf(Sign(a))
      [] OTHER -> FMul(a, Fin(b.d, b.n))

FAdd(a, b) ==
    CASE a.k = "nan" \/ b.k = "nan" -> NaN
      [] a.k = "inf" /\ b.k = "inf" -> IF a.n = b.n THEN a ELSE NaN
      [] a.k = "inf" -> a
      [] b.k = "inf" -> b
      [] OTHER -> FinEps(FracAdd(Main(a), Main(b)), FracAdd(Eps(a), Eps(b)))

FNeg(a) == IF a.k \in {"nan", "null"} THEN a ELSE [a EXCEPT !.n = -a.n, !.en = -a.en]

FSub(a, b) == FAdd(a, FNeg(b))

FMax(a, b) ==
    CASE a.k = "nan" \/ b.k = "nan" -> NaN
      [] FGt(b, a) -> b
      [] OTHER -> a

-----------------------------------------------------------------------------
(* The feed: rows {currency, date, price} *)

Row(c, dt, p) == [currency |-> c, date |-> dt, price |-> p]

\* new Date(s).getTime(): the instant of an ISO date, NaN for an Invalid Date
getTime(dt) ==
    CASE dt = "2024-01-01" -> Num(1)
      [] dt = "2024-01-02" -> Num(2)
      [] dt = "2024-01-03" -> Num(3)
      [] OTHER -> NaN

\* a.localeCompare(b) < 0 on the symbols of the model (code-point order)
SymbolOrder == <<"", "ATOM", "ETH", "OSMO", "SWTH", "USD", "USDC">>
Rank(s) == CHOOSE i \in 1..Len(SymbolOrder) : SymbolOrder[i] = s
localeCompare(a, b) == Rank(a) - Rank(b)

\* (variant) a lookup that never finds the key, as a Map keyed by row identity
MapIndexMiss(map, key) == 0

\* Map.get: the position of the key in the Map's insertion order, 0 if absent
MapIndex(map, key) ==
    IF \E i \in 1..Len(map) : map[i].currency = key
    THEN CHOOSE i \in 1..Len(map) : map[i].currency = key
    ELSE 0

\* Map.set: a new key goes last, an existing key keeps its place
MapSet(map, row) ==
    LET j == MapIndex(map, row.currency)
    IN IF j = 0 THEN Append(map, row) ELSE [map EXCEPT ![j] = row]

\* Array.prototype.sort (stable) of a list whose i-th key is keys[i], with the
\* comparator a.localeCompare(b): the list of positions in sorted order
SortedPositions(keys) ==
    LET pos(i) == Cardinality({j \in 1..Len(keys) :
                      \/ localeCompare(keys[j], keys[i]) < 0
                      \/ localeCompare(keys[j], keys[i]) = 0 /\ j < i}) + 1
    IN [p \in 1..Len(keys) |-> CHOOSE i \in 1..Len(keys) : pos(i) = p]

\* latest.sort((a, b) => a.symbol.localeCompare(b.symbol))
SortBySymbol(s) ==
    LET order == SortedPositions([i \in 1..Len(s) |-> s[i].symbol])
    IN [p \in 1..Len(s) |-> s[order[p]]]

\* .sort((a, b) => a.currency.localeCompare(b.currency))
SortByCurrency(s) ==
    LET order == SortedPositions([i \in 1..Len(s) |-> s[i].currency])
    IN [p \in 1..Len(s) |-> s[order[p]]]

\* ---- byLatestPerCurrency (swap form)

\* (variant) the comparison with >=: of rows of equal date the last one wins
NewerRowOrEqual(row, prev) == FLe(getTime(prev.date), getTime(row.date))

\* (variant) the comparison turned round: the earliest row wins
NewerRowFlipped(row, prev) == FGt(getTime(prev.date), getTime(row.date))

\* the replace condition of the loop: no previous row, or a strictly later date
NewerRow(row, prev) == FGt(getTime(row.date), getTime(prev.date))

RECURSIVE LatestRows(_, _, _)
LatestRows(rs, i, map) ==
    IF i > Len(rs) THEN map
    ELSE LET row == rs[i]
             j   == MapIndex(map, row.currency)
         IN IF j = 0 \/ NewerRow(row, map[j])
            THEN LatestRows(rs, i + 1, MapSet(map, row))
            ELSE LatestRows(rs, i + 1, map)

\* typeof r.price === "number" && isFinite(r.price) && r.price > 0
PriceUsable(r) == r.price.k # "null" /\ isFinite(r.price) /\ FGt(r.price, Num(0))

TokenMeta(r) == [symbol |-> r.currency, priceUSD |-> r.price, updatedAt |-> r.date]

byLatestPerCurrency(rs) ==
    LET kept == SelectSeq(LatestRows(rs, 1, <<>>), PriceUsable)
    IN [i \in 1..Len(kept) |-> TokenMeta(kept[i])]

\* ---- getLatestPrices (simple converter)

\* new Date(token.date) > new Date(existing.date)
NewerToken(token, existing) == FGt(getTime(token.date), getTime(existing.date))

RECURSIVE LatestTokens(_, _, _)
LatestTokens(data, i, currencyMap) ==
    IF i > Len(data) THEN currencyMap
    ELSE LET token == data[i]
             j     == MapIndex(currencyMap, token.currency)
         IN IF j = 0 \/ NewerToken(token, currencyMap[j])
            THEN LatestTokens(data, i + 1, MapSet(currencyMap, token))
            ELSE LatestTokens(data, i + 1, currencyMap)

\* token.price > 0 (null > 0 is false, Infinity > 0 is true)
PricePositive(token) == token.price.k # "null" /\ FGt(token.price, Num(0))

getLatestPrices(data) ==
    SortByCurrency(SelectSeq(LatestTokens(data, 1, <<>>), PricePositive))

-----------------------------------------------------------------------------
(* The reduction harness: a feed is drawn, both reductions are applied *)

MaxRows == 3

\* ETH rows take every date and price; USDC is the second currency of the feed
FeedDates  == {"2024-01-01", "2024-01-02", "garbage"}
FeedPrices == {Num(0), Num(-1), Num(5), Num(7), NaN, PosInf, NegInf}
FeedRows   == {Row("ETH", dt, p) : dt \in FeedDates, p \in FeedPrices}
                 \cup {Row("USDC", "2024-01-01", Num(1))}

RECURSIVE SeqsUpTo(_, _)
SeqsUpTo(S, n) ==
    IF n = 0 THEN {<<>>}
    ELSE LET shorter == SeqsUpTo(S, n - 1)
         IN shorter \cup {Append(s, x) : s \in {t \in shorter : Len(t) = n - 1}, x \in S}

NotRun == <<[symbol |-> "not run"]>>

\* ---- the initial state of the two components (their useState defaults)

DEFAULT_BALANCES ==
    [USDC |-> Num(2500), USD |-> Num(1000), ETH |-> Fin(3, 4),
     ATOM |-> Fin(12345, 100), OSMO |-> Num(200), SWTH |-> Num(100000)]

\* an amount field: the text typed, or String(v) of a number v
Typed(s)   == [s |-> s, v |-> Null]
Printed(v) == [s |-> "String(v)", v |-> v]

\* no submit() is suspended
NoPending == [fromSymbol |-> "", toSymbol |-> "", amountInNum |-> Null, minReceived |-> Null]

SwapIdle ==
    /\ tokens = <<>> /\ loading = TRUE /\ error = "null"
    /\ fromSymbol = "USDC" /\ toSymbol = "ATOM" /\ amountIn = Typed("")
    /\ slippage = Fin(1, 2)
    /\ balances = DEFAULT_BALANCES /\ submitting = FALSE /\ toast = "null"
    /\ pending = NoPending /\ nSwaps = 0

ConvIdle ==
    /\ cTokens = <<>> /\ cLoading = TRUE /\ cError = ""
    /\ fromCurrency = "" /\ toCurrency = "" /\ amount = ""
    /\ result = Null /\ history = <<>> /\ storage = <<>>
    /\ nConv = 0 /\ clearedAt = 0

\* the sum functions and the wallet page are not in use
AuxIdle ==
    /\ num = 0 /\ sumA = Null /\ sumB = Null /\ sumC = Null
    /\ wBalances = <<>> /\ sortedBalances = NotRun

InitReduce ==
    /\ app = "reduce" /\ op = "init"
    /\ rows \in SeqsUpTo(FeedRows, MaxRows)
    /\ latestA = NotRun /\ latestB = NotRun
    /\ SwapIdle /\ ConvIdle /\ AuxIdle

RunByLatest ==
    /\ app = "reduce" /\ latestA = NotRun
    /\ latestA' = byLatestPerCurrency(rows)
    /\ op' = "byLatestPerCurrency"
    /\ UNCHANGED <<app, auxVars, rows, latestB, swapVars, convVars>>

RunGetLatest ==
    /\ app = "reduce" /\ latestA # NotRun /\ latestB = NotRun
    /\ latestB' = getLatestPrices(rows)
    /\ op' = "getLatestPrices"
    /\ UNCHANGED <<app, auxVars, rows, latestA, swapVars, convVars>>

NextReduce == RunByLatest \/ RunGetLatest

SpecReduce == InitReduce /\ [][NextReduce]_vars

-----------------------------------------------------------------------------
(* Claims about the reduction, under SpecReduce *)

DoneA == latestA # NotRun
DoneB == latestB # NotRun

RowsOf(rs, c) == {i \in 1..Len(rs) : rs[i].currency = c}
Dated(r)      == getTime(r.date).k = "fin"
AllDated(rs, c) == \A i \in RowsOf(rs, c) : Dated(rs[i])
\* rows of c that no other row of c is later than
LatestOf(rs, c) ==
    {i \in RowsOf(rs, c) :
        \A j \in RowsOf(rs, c) : ~FGt(getTime(rs[j].date), getTime(rs[i].date))}
ValidPrice(p) == p.k = "fin" /\ Sign(p) > 0
SymbolsOf(out) == {out[i].symbol : i \in 1..Len(out)}
CurrenciesOf(out) == {out[i].currency : i \in 1..Len(out)}
FeedCurrencies == {"ETH", "USDC"}

\* C1: each reduction returns at most one quote per distinct currency.
C1_OneQuotePerCurrency ==
    /\ DoneA => \A i, j \in 1..Len(latestA) :
                    latestA[i].symbol = latestA[j].symbol => i = j
    /\ DoneB => \A i, j \in 1..Len(latestB) :
                    latestB[i].currency = latestB[j].currency => i = j

\* two usable rows of one currency went in, one quote came out of each reduction
C1_Witness ==
    /\ DoneA /\ DoneB
    /\ \E i, j \in 1..Len(rows) :
          /\ i < j /\ rows[i].currency = rows[j].currency
          /\ ValidPrice(rows[i].price) /\ ValidPrice(rows[j].price)
          /\ rows[i].currency \in SymbolsOf(latestA)
          /\ rows[i].currency \in CurrenciesOf(latestB)

\* C2: no observation with a price <= 0 or non-finite appears in the output of
\* either reduction, whatever its timestamp.
C2_NoInvalidPriceInOutput ==
    /\ DoneA => \A i \in 1..Len(latestA) : ValidPrice(latestA[i].priceUSD)
    /\ DoneB => \A i \in 1..Len(latestB) : ValidPrice(latestB[i].price)

\* the part of C2 that byLatestPerCurrency does satisfy
C2_SwapFormOnly ==
    DoneA => \A i \in 1..Len(latestA) : ValidPrice(latestA[i].priceUSD)

\* the input in another order
Permute(rs, p) == [i \in 1..Len(rs) |-> rs[p[i]]]
Orders(rs) == {Permute(rs, p) : p \in Permutations(1..Len(rs))}

\* currencies whose observations all carry a parseable timestamp, with one
\* observation strictly later than all the others (T1 < T2)
HasLatest(rs, c) ==
    /\ Cardinality(RowsOf(rs, c)) >= 2
    /\ AllDated(rs, c)
    /\ Cardinality(LatestOf(rs, c)) = 1
TheLatest(rs, c) == rs[CHOOSE i \in LatestOf(rs, c) : TRUE]

\* C3: for observations of one currency with timestamps T1 < T2, the quote of
\* that currency is the observation made at T2, in every order of the input.
C3_LatestWinsInEveryOrder ==
    DoneA /\ DoneB =>
      \A c \in FeedCurrencies : HasLatest(rows, c) =>
        \A rs \in Orders(rows) :
          LET outA == byLatestPerCurrency(rs)
              outB == getLatestPrices(rs)
              top  == TheLatest(rows, c)
          IN /\ rs = rows => outA = latestA /\ outB = latestB
             /\ \A i \in 1..Len(outA) : outA[i].symbol = c => outA[i] = TokenMeta(top)
             /\ \A i \in 1..Len(outB) : outB[i].currency = c => outB[i] = top
             /\ ValidPrice(top.price) =>
                   c \in SymbolsOf(outA) /\ c \in CurrenciesOf(outB)

\* the later observation comes first in the input and is the one quoted
C3_Witness ==
    /\ DoneA /\ DoneB
    /\ \E i, j \in 1..Len(rows) :
          /\ i < j /\ rows[i].currency = rows[j].currency
          /\ HasLatest(rows, rows[i].currency)
          /\ FGt(getTime(rows[i].date), getTime(rows[j].date))
          /\ ValidPrice(rows[i].price) /\ ValidPrice(rows[j].price)
          /\ rows[i].price # rows[j].price
          /\ \E q \in 1..Len(latestA) : latestA[q] = TokenMeta(rows[i])
          /\ \E q \in 1..Len(latestB) : latestB[q] = rows[i]

\* C4: selection comes before the price filter: when the latest observation of
\* a currency has an invalid price (0, negative, NaN, +-Infinity), the currency
\* is absent from the output even if an older observation has a valid price.
C4_LatestInvalidMeansAbsent ==
    \A c \in FeedCurrencies :
        HasLatest(rows, c) /\ ~ValidPrice(TheLatest(rows, c).price) =>
            /\ DoneA => c \notin SymbolsOf(latestA)
            /\ DoneB => c \notin CurrenciesOf(latestB)

\* the part of C4 that byLatestPerCurrency does satisfy
C4_SwapFormOnly ==
    \A c \in FeedCurrencies :
        HasLatest(rows, c) /\ ~ValidPrice(TheLatest(rows, c).price) =>
            (DoneA => c \notin SymbolsOf(latestA))

\* C10: the reduction raises no error: it returns a list for every input,
\* rows with an invalid price or an unparseable date are left out of it, and
\* the empty input gives the empty output.
C10_InvalidRowsLeftOut ==
    /\ DoneA => /\ rows = <<>> => latestA = <<>>
                /\ \A i \in 1..Len(latestA) :
                      /\ ValidPrice(latestA[i].priceUSD)
                      /\ getTime(latestA[i].updatedAt).k = "fin"
    /\ DoneB => /\ rows = <<>> => latestB = <<>>
                /\ \A i \in 1..Len(latestB) :
                      /\ ValidPrice(latestB[i].price)
                      /\ Dated(latestB[i])

\* what does hold of both reductions: a list no longer than the input, of
\* rows of the input, empty for the empty input
C10_TotalOnEveryInput ==
    /\ DoneA => /\ Len(latestA) <= Len(rows)
                /\ \A i \in 1..Len(latestA) :
                      \E j \in 1..Len(rows) : latestA[i] = TokenMeta(rows[j])
    /\ DoneB => /\ Len(latestB) <= Len(rows)
                /\ \A i \in 1..Len(latestB) : \E j \in 1..Len(rows) : latestB[i] = rows[j]

\* currencies whose observations all carry a parseable timestamp, several of
\* them the maximum one
HasTie(rs, c) == AllDated(rs, c) /\ Cardinality(LatestOf(rs, c)) >= 2
FirstLatest(rs, c) ==
    rs[CHOOSE i \in LatestOf(rs, c) : \A j \in LatestOf(rs, c) : i <= j]

\* C17: when several observations of one currency share the maximum
\* timestamp, both reductions keep the one that comes first in the input (a
\* later row replaces the retained one only when its timestamp is strictly
\* greater).
C17_TieKeepsFirst ==
    \A c \in FeedCurrencies : HasTie(rows, c) =>
        LET first == FirstLatest(rows, c)
        IN /\ DoneA =>
                /\ \A i \in 1..Len(latestA) :
                      latestA[i].symbol = c => latestA[i] = TokenMeta(first)
                /\ ValidPrice(first.price) => c \in SymbolsOf(latestA)
           /\ DoneB =>
                /\ \A i \in 1..Len(latestB) :
                      latestB[i].currency = c => latestB[i] = first
                /\ ValidPrice(first.price) => c \in CurrenciesOf(latestB)

\* two observations of equal date and different valid prices went in, and the
\* first of them is the quote of both reductions
C17_Witness ==
    /\ DoneA /\ DoneB
    /\ \E i, j \in 1..Len(rows) :
          /\ i < j /\ rows[i].currency = rows[j].currency
          /\ HasTie(rows, rows[i].currency)
          /\ rows[i] = FirstLatest(rows, rows[i].currency)
          /\ rows[j].date = rows[i].date
          /\ ValidPrice(rows[i].price) /\ ValidPrice(rows[j].price)
          /\ rows[i].price # rows[j].price
          /\ \E q \in 1..Len(latestA) : latestA[q] = TokenMeta(rows[i])
          /\ \E q \in 1..Len(latestB) : latestB[q] = rows[i]

-----------------------------------------------------------------------------
(* SwapApp: the swap form *)

feeBps == 20

\* the responses of the prices endpoint used for the two components
FeedScenario == <<Row("ETH", "2024-01-01", Num(3000)), Row("ETH", "2024-01-02", Num(3100)),
                  Row("USDC", "2024-01-01", Num(1))>>
FeedAtom     == <<Row("USDC", "2024-01-02", Num(1)), Row("ATOM", "2024-01-01", Num(10))>>
FeedOneToken == <<Row("USDC", "2024-01-01", Num(1)), Row("ETH", "2024-01-01", Num(3000)),
                  Row("ETH", "2024-01-02", Num(0))>>
FeedInfinite == <<Row("ETH", "2024-01-01", PosInf), Row("USDC", "2024-01-01", Num(1))>>
FeedEmpty    == <<>>
Feeds == {FeedScenario, FeedAtom, FeedOneToken, FeedInfinite, FeedEmpty}

AmountTexts     == {"", "abc", "-5", "2", "Infinity", "5000"}
SlippageChoices == {Fin(1, 2), Num(5)}

\* Number(text)
Number(a) ==
    IF a.s = "String(v)" THEN a.v
    ELSE CASE a.s = ""         -> Num(0)
           [] a.s = "0"        -> Num(0)
           [] a.s = "2"        -> Num(2)
           [] a.s = "-5"       -> Num(-5)
           [] a.s = "5000"     -> Num(5000)
           [] a.s = "Infinity" -> PosInf
           [] a.s = "0.7500000000005" -> FinEps(<<3, 4>>, <<1, 2>>)
           [] OTHER            -> NaN

\* x is falsy as a number: 0 or NaN
Falsy(x) == x.k \in {"nan", "null"} \/ (x.k = "fin" /\ Sign(x) = 0)

NoToken == [symbol |-> "", priceUSD |-> Null, updatedAt |-> ""]

\* (variant) the first token of the list stands in for a symbol that is not listed
FindTokenOrFirst(ts, s) ==
    IF \E i \in 1..Len(ts) : ts[i].symbol = s
    THEN ts[CHOOSE i \in 1..Len(ts) : ts[i].symbol = s]
    ELSE IF Len(ts) > 0 THEN ts[1] ELSE NoToken

\* tokens.find((t) => t.symbol === s) || null
FindToken(ts, s) ==
    IF \E i \in 1..Len(ts) : ts[i].symbol = s
    THEN ts[CHOOSE i \in 1..Len(ts) :
                ts[i].symbol = s /\ \A j \in 1..(i - 1) : ts[j].symbol # s]
    ELSE NoToken

fromToken == FindToken(tokens, fromSymbol)
toToken   == FindToken(tokens, toSymbol)

amountInNum == IF Falsy(Number(amountIn)) THEN Num(0) ELSE Number(amountIn)

\* (variant) the rate with the platform fee already taken out of it
rateNetOfFee ==
    IF fromToken = NoToken \/ toToken = NoToken THEN Num(0)
    ELSE FMul(FDiv(fromToken.priceUSD, toToken.priceUSD),
              FSub(Num(1), FDiv(Num(feeBps), Num(10000))))

\* (variant) the rate taken the wrong way round
rateInverted ==
    IF fromToken = NoToken \/ toToken = NoToken THEN Num(0)
    ELSE FDiv(toToken.priceUSD, fromToken.priceUSD)

rate ==
    IF fromToken = NoToken \/ toToken = NoToken THEN Num(0)
    ELSE FDiv(fromToken.priceUSD, toToken.priceUSD)

amountOut   == FMul(amountInNum, rate)
platformFee == FMul(amountOut, FDiv(Num(feeBps), Num(10000)))
minReceived ==
    FSub(FMul(amountOut, FSub(Num(1), FDiv(slippage, Num(100)))), platformFee)

\* the expression of platformFee and minReceived on a given amountOut, slippage
\* and fee: out * (1 - slip / 100) - out * (bps / 10_000)
MinReceivedOf(out, slip, bps) ==
    FSub(FMul(out, FSub(Num(1), FDiv(slip, Num(100)))),
         FMul(out, FDiv(Num(bps), Num(10000))))

\* balances[s] ?? 0
BalanceOf(b, s) == IF s \in DOMAIN b THEN b[s] ELSE Num(0)

sameToken == fromSymbol = toSymbol
hasPrice  == fromToken # NoToken /\ toToken # NoToken
fromBal   == BalanceOf(balances, fromSymbol)
\* 1e-12, the small epsilon of amountTooHigh
Epsilon == FinEps(<<0, 1>>, <<1, 1>>)
amountTooHigh == FGt(amountInNum, FAdd(fromBal, Epsilon))
amountInvalid == ~isFinite(amountInNum) \/ FLe(amountInNum, Num(0))

\* (variant) the validation without the same-token test
canSwapSameAllowed ==
    /\ ~loading /\ error = "null" /\ hasPrice
    /\ ~amountInvalid /\ ~amountTooHigh /\ FGt(amountOut, Num(0))

canSwap ==
    /\ ~loading
    /\ error = "null"
    /\ hasPrice
    /\ ~sameToken
    /\ ~amountInvalid
    /\ ~amountTooHigh
    /\ FGt(amountOut, Num(0))

MaxSwaps == 1
\* MAX is followed on balances that are fractions of at most this denominator,
\* which keeps the exact arithmetic of the model inside the integer range
MaxDen == 20

InitSwap ==
    /\ app = "SwapApp" /\ op = "mount"
    /\ rows = <<>> /\ latestA = NotRun /\ latestB = NotRun
    /\ SwapIdle /\ ConvIdle /\ AuxIdle

\* the fetch effect, success: lines 98-104 and the finally
FetchOk(F) ==
    /\ app = "SwapApp" /\ loading
    /\ \E raw \in F :
         tokens' = SortBySymbol(byLatestPerCurrency(raw))
    /\ error' = "null"
    /\ loading' = FALSE
    /\ op' = "fetch ok"
    /\ UNCHANGED <<app, auxVars, redVars, convVars, fromSymbol, toSymbol, amountIn, slippage,
                   balances, submitting, toast, pending, nSwaps>>

\* (variant) the failure path without the finally: loading stays true
FetchFailNoFinally ==
    /\ app = "SwapApp" /\ loading /\ error = "null"
    /\ error' = "HTTP 500"
    /\ op' = "fetch failed"
    /\ UNCHANGED <<app, auxVars, redVars, convVars, tokens, loading, fromSymbol, toSymbol,
                   amountIn, slippage, balances, submitting, toast, pending, nSwaps>>

\* the fetch effect, failure: !res.ok or a rejected fetch / json()
FetchFail ==
    /\ app = "SwapApp" /\ loading
    /\ error' = "HTTP 500"
    /\ loading' = FALSE
    /\ op' = "fetch failed"
    /\ UNCHANGED <<app, auxVars, redVars, convVars, tokens, fromSymbol, toSymbol, amountIn,
                   slippage, balances, submitting, toast, pending, nSwaps>>

\* TokenSelect of the From row (disabled while loading)
SelectFrom ==
    /\ app = "SwapApp" /\ ~loading
    /\ \E i \in 1..Len(tokens) : fromSymbol' = tokens[i].symbol
    /\ op' = "setFromSymbol"
    /\ UNCHANGED <<app, auxVars, redVars, convVars, tokens, loading, error, toSymbol, amountIn,
                   slippage, balances, submitting, toast, pending, nSwaps>>

SelectTo ==
    /\ app = "SwapApp" /\ ~loading
    /\ \E i \in 1..Len(tokens) : toSymbol' = tokens[i].symbol
    /\ op' = "setToSymbol"
    /\ UNCHANGED <<app, auxVars, redVars, convVars, tokens, loading, error, fromSymbol, amountIn,
                   slippage, balances, submitting, toast, pending, nSwaps>>

TypeAmount(A) ==
    /\ app = "SwapApp"
    /\ \E s \in A : amountIn' = Typed(s)
    /\ op' = "setAmountIn"
    /\ UNCHANGED <<app, auxVars, redVars, convVars, tokens, loading, error, fromSymbol, toSymbol,
                   slippage, balances, submitting, toast, pending, nSwaps>>

SetSlippage ==
    /\ app = "SwapApp"
    /\ \E s \in SlippageChoices : slippage' = s
    /\ op' = "setSlippage"
    /\ UNCHANGED <<app, auxVars, redVars, convVars, tokens, loading, error, fromSymbol, toSymbol,
                   amountIn, balances, submitting, toast, pending, nSwaps>>

flip ==
    /\ app = "SwapApp"
    /\ fromSymbol' = toSymbol
    /\ toSymbol' = fromSymbol
    /\ op' = "flip"
    /\ UNCHANGED <<app, auxVars, redVars, convVars, tokens, loading, error, amountIn, slippage,
                   balances, submitting, toast, pending, nSwaps>>

onMax ==
    /\ app = "SwapApp"
    /\ BalanceOf(balances, fromSymbol).d <= MaxDen
    /\ LET v == BalanceOf(balances, fromSymbol)
       IN amountIn' = IF Falsy(v) THEN Typed("") ELSE Printed(v)
    /\ op' = "onMax"
    /\ UNCHANGED <<app, auxVars, redVars, convVars, tokens, loading, error, fromSymbol, toSymbol,
                   slippage, balances, submitting, toast, pending, nSwaps>>

\* a click on Swap: the button is disabled when !canSwap || submitting; submit()
\* returns when !canSwap, else runs up to its await with its closure
submit(cap) ==
    /\ app = "SwapApp" /\ nSwaps < cap
    /\ op' = "submit"
    /\ IF (~canSwap \/ submitting) \/ ~canSwap
       THEN UNCHANGED <<submitting, toast, pending>>
       ELSE /\ submitting' = TRUE
            /\ toast' = "null"
            /\ pending' = [fromSymbol |-> fromSymbol, toSymbol |-> toSymbol,
                           amountInNum |-> amountInNum, minReceived |-> minReceived]
    /\ UNCHANGED <<app, auxVars, redVars, convVars, tokens, loading, error, fromSymbol, toSymbol,
                   amountIn, slippage, balances, nSwaps>>

\* (variant) the amount paid credited to the target token
SwapBalancesAtPar(prev, c) ==
    LET next1 == [s \in DOMAIN prev \cup {c.fromSymbol} |->
                     IF s = c.fromSymbol
                     THEN FSub(BalanceOf(prev, s), c.amountInNum)
                     ELSE prev[s]]
    IN [s \in DOMAIN next1 \cup {c.toSymbol} |->
           IF s = c.toSymbol THEN FAdd(BalanceOf(next1, s), c.amountInNum) ELSE next1[s]]

\* setBalances((prev) => ...) of the resumed submit
SwapBalances(prev, c) ==
    LET out   == FMax(c.minReceived, Num(0))
        next1 == [s \in DOMAIN prev \cup {c.fromSymbol} |->
                     IF s = c.fromSymbol
                     THEN FSub(BalanceOf(prev, s), c.amountInNum)
                     ELSE prev[s]]
    IN [s \in DOMAIN next1 \cup {c.toSymbol} |->
           IF s = c.toSymbol THEN FAdd(BalanceOf(next1, s), out) ELSE next1[s]]

\* submit() resumes after the 1100 ms delay: lines 176-191
submitResume ==
    /\ app = "SwapApp" /\ pending # NoPending
    /\ balances' = SwapBalances(balances, pending)
    /\ submitting' = FALSE
    /\ toast' = "success: Swapped"
    /\ amountIn' = Typed("")
    /\ pending' = NoPending
    /\ nSwaps' = nSwaps + 1
    /\ op' = "submit resumed"
    /\ UNCHANGED <<app, auxVars, redVars, convVars, tokens, loading, error, fromSymbol, toSymbol,
                   slippage>>

\* (the Connect Wallet button only shows a toast of its own and is left out)

\* onAnimationEnd of the toast
toastEnd ==
    /\ app = "SwapApp" /\ toast # "null"
    /\ toast' = "null"
    /\ op' = "toast end"
    /\ UNCHANGED <<app, auxVars, redVars, convVars, tokens, loading, error, fromSymbol, toSymbol,
                   amountIn, slippage, balances, submitting, pending, nSwaps>>

NextSwap ==
    \/ FetchOk(Feeds) \/ FetchFail \/ SelectFrom \/ SelectTo \/ TypeAmount(AmountTexts)
    \/ SetSlippage \/ flip \/ onMax \/ submit(MaxSwaps) \/ submitResume \/ toastEnd

\* the swap form on the two-token feed, run through swaps in a row;
\* the amounts typed are within the balance, above it, and above it by less
\* than the epsilon of amountTooHigh
MaxSwapChain == 2
ChainAmountTexts == {"2", "5000", "0.7500000000005"}
NextSwapChain ==
    \/ FetchOk({FeedScenario}) \/ FetchFail \/ SelectFrom \/ SelectTo
    \/ TypeAmount(ChainAmountTexts) \/ SetSlippage \/ flip \/ onMax
    \/ submit(MaxSwapChain) \/ submitResume \/ toastEnd
SpecSwapChain == InitSwap /\ [][NextSwapChain]_vars


-----------------------------------------------------------------------------
(* SimpleCurrencyConverter *)

\* the number input of the converter yields "" or a numeric text
CAmountTexts == {"", "0", "2", "-5"}

parseFloat(s) ==
    CASE s = "0"  -> Num(0)
      [] s = "2"  -> Num(2)
      [] s = "-5" -> Num(-5)
      [] s = "Infinity" -> PosInf
      [] OTHER    -> NaN

NoCToken == Row("", "", Null)

\* tokens.find((t) => t.currency === c)
FindCurrency(ts, c) ==
    IF \E i \in 1..Len(ts) : ts[i].currency = c
    THEN ts[CHOOSE i \in 1..Len(ts) :
                ts[i].currency = c /\ \A j \in 1..(i - 1) : ts[j].currency # c]
    ELSE NoCToken

\* JSON.stringify writes null for NaN and the infinities; JSON.parse reads it back
JsonNum(x) == IF isFinite(x) THEN x ELSE Null
JsonEntry(e) ==
    [e EXCEPT !.amount = JsonNum(e.amount), !.result = JsonNum(e.result),
              !.rate = JsonNum(e.rate)]
JsonList(h) == [i \in 1..Len(h) |-> JsonEntry(h[i])]

HistoryCap == 10

\* (variant) the history kept without the slice
KeepAll(h) == h

\* .slice(0, 10)
KeepLast(h) == SubSeq(h, 1, IF Len(h) < HistoryCap THEN Len(h) ELSE HistoryCap)

\* loadHistory on the stored item: null when absent
loadHistory(st) == IF st # <<>> THEN st[1] ELSE <<>>

MaxConv == 2

InitConv ==
    /\ app = "Converter" /\ op = "mount"
    /\ rows = <<>> /\ latestA = NotRun /\ latestB = NotRun
    /\ SwapIdle /\ ConvIdle /\ AuxIdle

\* the page is loaded again in the same tab: the component mounts afresh
\* (fetchTokens starts, loadHistory reads the session storage)
mount ==
    /\ app = "Converter"
    /\ cTokens' = <<>> /\ cLoading' = TRUE /\ cError' = ""
    /\ fromCurrency' = "" /\ toCurrency' = "" /\ amount' = "" /\ result' = Null
    /\ history' = loadHistory(storage)
    /\ op' = "mount"
    /\ UNCHANGED <<app, auxVars, redVars, swapVars, storage, nConv, clearedAt>>

\* fetchTokens, the response is ok: lines 605-615 and the finally
fetchTokensOk(F) ==
    /\ app = "Converter" /\ cLoading
    /\ \E data \in F :
         LET latestPrices == getLatestPrices(data)
         IN /\ cTokens' = latestPrices
            /\ IF Len(latestPrices) > 0
               THEN /\ fromCurrency' = latestPrices[1].currency
                    /\ toCurrency' = IF Len(latestPrices) > 1
                                     THEN latestPrices[2].currency
                                     ELSE latestPrices[1].currency
               ELSE UNCHANGED <<fromCurrency, toCurrency>>
    /\ cError' = ""
    /\ cLoading' = FALSE
    /\ op' = "fetchTokens ok"
    /\ UNCHANGED <<app, auxVars, redVars, swapVars, amount, result, history, storage, nConv,
                   clearedAt>>

\* fetchTokens, !response.ok or a rejected fetch / json()
fetchTokensFail ==
    /\ app = "Converter" /\ cLoading
    /\ cError' = "Failed to fetch prices"
    /\ cLoading' = FALSE
    /\ op' = "fetchTokens failed"
    /\ UNCHANGED <<app, auxVars, redVars, swapVars, cTokens, fromCurrency, toCurrency, amount,
                   result, history, storage, nConv, clearedAt>>

\* the Try Again button of the error page
tryAgain ==
    /\ app = "Converter" /\ ~cLoading /\ cError # ""
    /\ cLoading' = TRUE
    /\ op' = "try again"
    /\ UNCHANGED <<app, auxVars, redVars, swapVars, cTokens, cError, fromCurrency, toCurrency,
                   amount, result, history, storage, nConv, clearedAt>>

\* the form is rendered: neither the loading nor the error page
FormShown == app = "Converter" /\ ~cLoading /\ cError = ""

setFromCurrency ==
    /\ FormShown
    /\ \E i \in 1..Len(cTokens) : fromCurrency' = cTokens[i].currency
    /\ op' = "setFromCurrency"
    /\ UNCHANGED <<app, auxVars, redVars, swapVars, cTokens, cLoading, cError, toCurrency, amount,
                   result, history, storage, nConv, clearedAt>>

setToCurrency ==
    /\ FormShown
    /\ \E i \in 1..Len(cTokens) : toCurrency' = cTokens[i].currency
    /\ op' = "setToCurrency"
    /\ UNCHANGED <<app, auxVars, redVars, swapVars, cTokens, cLoading, cError, fromCurrency,
                   amount, result, history, storage, nConv, clearedAt>>

setAmount(A) ==
    /\ FormShown
    /\ \E s \in A : amount' = s
    /\ op' = "setAmount"
    /\ UNCHANGED <<app, auxVars, redVars, swapVars, cTokens, cLoading, cError, fromCurrency,
                   toCurrency, result, history, storage, nConv, clearedAt>>

\* the disabled attribute of the Convert button
ConvertDisabled ==
    amount = "" \/ fromCurrency = "" \/ toCurrency = "" \/ fromCurrency = toCurrency

\* the two early returns of convertCurrency
EarlyReturn ==
    \/ Falsy(parseFloat(amount)) \/ fromCurrency = "" \/ toCurrency = ""
    \/ FindCurrency(cTokens, fromCurrency) = NoCToken
    \/ FindCurrency(cTokens, toCurrency) = NoCToken

\* rate and convertedAmount of convertCurrency
Conversion(amountNum, fromTok, toTok) ==
    LET r == FDiv(fromTok.price, toTok.price)
    IN [rate |-> r, convertedAmount |-> FMul(amountNum, r)]

\* a click on Convert: nothing when the button is disabled, else convertCurrency
\* with saveToHistory
convertCurrency(cap) ==
    /\ FormShown /\ nConv < cap
    /\ op' = "convertCurrency"
    /\ IF ConvertDisabled \/ EarlyReturn
       THEN UNCHANGED <<result, history, storage, nConv>>
       ELSE LET amountNum  == parseFloat(amount)
                c          == Conversion(amountNum, FindCurrency(cTokens, fromCurrency),
                                         FindCurrency(cTokens, toCurrency))
                conversion == [from |-> fromCurrency, to |-> toCurrency,
                               amount |-> amountNum, result |-> c.convertedAmount,
                               rate |-> c.rate, timestamp |-> nConv + 1]
                newHistory == KeepLast(<<conversion>> \o history)
            IN /\ result' = c.convertedAmount
               /\ history' = newHistory
               /\ storage' = <<JsonList(newHistory)>>
               /\ nConv' = nConv + 1
    /\ UNCHANGED <<app, auxVars, redVars, swapVars, cTokens, cLoading, cError, fromCurrency,
                   toCurrency, amount, clearedAt>>

\* the Clear History button, rendered when the history is not empty
clearHistory ==
    /\ FormShown /\ Len(history) > 0
    /\ history' = <<>>
    /\ storage' = <<>>
    /\ clearedAt' = nConv
    /\ op' = "clearHistory"
    /\ UNCHANGED <<app, auxVars, redVars, swapVars, cTokens, cLoading, cError, fromCurrency,
                   toCurrency, amount, result, nConv>>

NextConv ==
    \/ mount \/ fetchTokensOk(Feeds) \/ fetchTokensFail \/ tryAgain
    \/ setFromCurrency \/ setToCurrency \/ setAmount(CAmountTexts)
    \/ convertCurrency(MaxConv) \/ clearHistory

\* the two user interfaces: one of them is mounted
InitUI == InitSwap \/ InitConv
NextUI == NextSwap \/ NextConv
Spec == InitUI /\ [][NextUI]_vars

\* the two forms with fewer amounts to type, for the progress of the fetch:
\* the awaited fetch settles, by a response or by a rejection, and the code
\* after the await runs
NextLive ==
    \/ FetchOk(Feeds) \/ FetchFail \/ SelectFrom \/ SelectTo
    \/ TypeAmount({"", "2"}) \/ flip \/ onMax
    \/ submit(MaxSwaps) \/ submitResume \/ toastEnd
    \/ mount \/ fetchTokensOk(Feeds) \/ fetchTokensFail \/ tryAgain
    \/ setFromCurrency \/ setToCurrency \/ setAmount({"2"})
    \/ convertCurrency(MaxConv) \/ clearHistory
SpecLive ==
    /\ InitUI /\ [][NextLive]_vars
    /\ WF_vars(FetchOk(Feeds) \/ FetchFail)
    /\ WF_vars(fetchTokensOk(Feeds) \/ fetchTokensFail)

\* the converter on the two-token feed with one amount, run long enough to
\* fill the history beyond its cap
MaxHistoryConv == 11
NextHistory ==
    \/ mount \/ fetchTokensOk({FeedScenario}) \/ fetchTokensFail \/ tryAgain
    \/ setFromCurrency \/ setToCurrency \/ setAmount({"2"})
    \/ convertCurrency(MaxHistoryConv) \/ clearHistory
SpecHistory == InitConv /\ [][NextHistory]_vars

-----------------------------------------------------------------------------
(* sum_to_n: the three implementations *)

\* [...Array(num).keys()]: the list 0, 1, ..., num - 1
numListOf(n) == [i \in 1..n |-> i - 1]

\* .map((num) => num + 1)
MapPlusOne(l) == [i \in 1..Len(l) |-> l[i] + 1]

\* .reduce((prev, cur) => prev + cur, 0) from position i on
RECURSIVE ReduceAdd(_, _, _)
ReduceAdd(l, i, prev) ==
    IF i > Len(l) THEN prev ELSE ReduceAdd(l, i + 1, prev + l[i])

sum_to_n_a(n) == Num(ReduceAdd(MapPlusOne(numListOf(n)), 1, 0))

\* for (let i = 1; i <= num; i++) sum += i
RECURSIVE ForLoop(_, _, _)
ForLoop(n, i, sum) == IF i <= n THEN ForLoop(n, i + 1, sum + i) ELSE sum

sum_to_n_b(n) == Num(ForLoop(n, 1, 0))

\* (variant) the formula of the sum 0 + 1 + ... + (num - 1)
sum_to_n_c_below(n) == FDiv(Num(n * (n - 1)), Num(2))

\* (num * (num + 1)) / 2, a division of numbers
sum_to_n_c(n) == FDiv(Num(n * (n + 1)), Num(2))

MaxN == 20

InitSum ==
    /\ app = "sum" /\ op = "init"
    /\ rows = <<>> /\ latestA = NotRun /\ latestB = NotRun
    /\ SwapIdle /\ ConvIdle
    /\ num \in 0..MaxN /\ sumA = Null /\ sumB = Null /\ sumC = Null
    /\ wBalances = <<>> /\ sortedBalances = NotRun

CallSumA ==
    /\ app = "sum" /\ sumA = Null
    /\ sumA' = sum_to_n_a(num)
    /\ op' = "sum_to_n_a"
    /\ UNCHANGED <<app, redVars, swapVars, convVars, pageVars, num, sumB, sumC>>

CallSumB ==
    /\ app = "sum" /\ sumB = Null
    /\ sumB' = sum_to_n_b(num)
    /\ op' = "sum_to_n_b"
    /\ UNCHANGED <<app, redVars, swapVars, convVars, pageVars, num, sumA, sumC>>

CallSumC ==
    /\ app = "sum" /\ sumC = Null
    /\ sumC' = sum_to_n_c(num)
    /\ op' = "sum_to_n_c"
    /\ UNCHANGED <<app, redVars, swapVars, convVars, pageVars, num, sumA, sumB>>

NextSum == CallSumA \/ CallSumB \/ CallSumC

SpecSum == InitSum /\ [][NextSum]_vars

\* the number of pairs (i, j) with 1 <= j <= i <= n: one for 1, two for 2, ...
PairsUpTo(n) == {<<i, j>> \in (1..n) \X (1..n) : j <= i}

-----------------------------------------------------------------------------
(* WalletPage: the list of balances that is rendered *)

PRIORITY == [Osmosis |-> 100, Ethereum |-> 50, Arbitrum |-> 30, Zilliqa |-> 20, Neo |-> 20]

\* PRIORITY[blockchain] ?? -99
getPriority(blockchain) ==
    IF blockchain \in DOMAIN PRIORITY THEN PRIORITY[blockchain] ELSE -99

\* the callback of .filter: balancePriority > -99 && balance.amount >= 0
BalanceKept(balance) ==
    getPriority(balance.blockchain) > -99 /\ FLe(Num(0), balance.amount)

\* .sort((lhs, rhs) => rightPriority - leftPriority), a stable sort
SortByPriority(s) ==
    LET before(j, i) == \/ getPriority(s[j].blockchain) > getPriority(s[i].blockchain)
                        \/ /\ getPriority(s[j].blockchain) = getPriority(s[i].blockchain)
                           /\ j < i
        pos(i) == Cardinality({j \in 1..Len(s) : before(j, i)}) + 1
    IN [p \in 1..Len(s) |-> s[CHOOSE i \in 1..Len(s) : pos(i) = p]]

\* the useMemo of sortedBalances
SortedBalancesOf(bs) == SortByPriority(SelectSeq(bs, BalanceKept))

MaxBalances == 2

WalletBalance(c, a, b) == [currency |-> c, amount |-> a, blockchain |-> b]

WalletAmounts == {Num(-1), Num(0), Num(5), NaN}

\* the balances a wallet may report: two known blockchains and an unknown one
WalletBalances ==
    {WalletBalance("OSMO", a, "Osmosis") : a \in WalletAmounts}
      \cup {WalletBalance("ETH", a, "Ethereum") : a \in WalletAmounts}
      \cup {WalletBalance("SOL", a, "Solana") : a \in WalletAmounts}

InitWallet ==
    /\ app = "WalletPage" /\ op = "init"
    /\ rows = <<>> /\ latestA = NotRun /\ latestB = NotRun
    /\ SwapIdle /\ ConvIdle
    /\ num = 0 /\ sumA = Null /\ sumB = Null /\ sumC = Null
    /\ wBalances \in SeqsUpTo(WalletBalances, MaxBalances)
    /\ sortedBalances = NotRun

\* the component renders: the memo is computed from the balances
renderWalletPage ==
    /\ app = "WalletPage" /\ sortedBalances = NotRun
    /\ sortedBalances' = SortedBalancesOf(wBalances)
    /\ op' = "render"
    /\ UNCHANGED <<app, redVars, swapVars, convVars, sumVars, wBalances>>

\* useWalletBalances() returns a list in which one amount has changed: the
\* memo is computed again
balancesChange ==
    /\ app = "WalletPage" /\ sortedBalances # NotRun
    /\ \E i \in 1..Len(wBalances), a \in WalletAmounts :
          /\ a # wBalances[i].amount
          /\ wBalances' = [wBalances EXCEPT ![i].amount = a]
          /\ sortedBalances' = SortedBalancesOf(wBalances')
    /\ op' = "balances changed"
    /\ UNCHANGED <<app, redVars, swapVars, convVars, sumVars>>

NextWallet == renderWalletPage \/ balancesChange

SpecWallet == InitWallet /\ [][NextWallet]_vars

KnownBlockchains == {"Osmosis", "Ethereum", "Arbitrum", "Zilliqa", "Neo"}

\* how often a balance occurs in a list
Occurrences(s, b) == Cardinality({i \in 1..Len(s) : s[i] = b})

\* C13: the filter of the wallet page shows exactly the balances with amount
\* > 0 and priority > -99 (the PRIORITY entry of the blockchain, -99 for an
\* unknown one): a balance of amount 0 or of an unknown blockchain is not shown.
C13_ShownIffPositiveAndKnown ==
    app = "WalletPage" /\ sortedBalances # NotRun =>
        \A b \in WalletBalances :
            Occurrences(sortedBalances, b) =
                IF b.blockchain \in KnownBlockchains /\ FGt(b.amount, Num(0))
                THEN Occurrences(wBalances, b) ELSE 0

\* what the filter does: amount >= 0 and a known blockchain
C13_ShownIffNonNegativeAndKnown ==
    app = "WalletPage" /\ sortedBalances # NotRun =>
        \A b \in WalletBalances :
            Occurrences(sortedBalances, b) =
                IF b.blockchain \in KnownBlockchains /\ b.amount.k = "fin" /\ Sign(b.amount) >= 0
                THEN Occurrences(wBalances, b) ELSE 0

-----------------------------------------------------------------------------
(* Claims about the two user interfaces, under Spec and SpecHistory *)

Listed(ts, s)    == \E i \in 1..Len(ts) : ts[i].symbol = s
ListedC(ts, c)   == \E i \in 1..Len(ts) : ts[i].currency = c
PriceOf(ts, s)   == ts[CHOOSE i \in 1..Len(ts) : ts[i].symbol = s].priceUSD
PriceOfC(ts, c)  == ts[CHOOSE i \in 1..Len(ts) : ts[i].currency = c].price

\* fromPrice / toPrice and amount * ratio written out on the fractions (both
\* prices are > 0; an infinite price gives an infinite or a zero ratio)
Ratio(pf, pt) ==
    CASE pf.k = "fin" /\ pt.k = "fin" -> Fin(pf.n * pt.d, pf.d * pt.n)
      [] pf.k = "inf" /\ pt.k = "fin" -> PosInf
      [] pf.k = "fin" /\ pt.k = "inf" -> Num(0)
      [] OTHER -> NaN
Times(a, r) ==
    CASE r.k = "fin" -> FinEps(Frac(a.n * r.n, a.d * r.d), Frac(a.en * r.n, a.ed * r.d))
      [] r.k = "inf" -> IF a.n > 0 THEN PosInf ELSE NegInf
      [] OTHER -> NaN

\* the last conversion of the converter, while its result is on display
LastConversionShown ==
    /\ app = "Converter" /\ result # Null
    /\ Len(history) > 0 /\ history[1].timestamp = nConv

\* the formulas of the conversion, on every state of the two forms
ConversionFormulas ==
    /\ app = "SwapApp" /\ Listed(tokens, fromSymbol) /\ Listed(tokens, toSymbol) =>
         /\ rate = Ratio(PriceOf(tokens, fromSymbol), PriceOf(tokens, toSymbol))
         /\ isFinite(amountInNum) => amountOut = Times(amountInNum, rate)
         /\ isFinite(amountOut) =>
              /\ FMul(platformFee, Num(10000)) = FMul(amountOut, Num(feeBps))
              /\ FMul(FAdd(minReceived, platformFee), Num(100))
                   = FMul(amountOut, FSub(Num(100), slippage))
    /\ LastConversionShown =>
         LET e == history[1]
         IN /\ e.rate = Ratio(PriceOfC(cTokens, e.from), PriceOfC(cTokens, e.to))
            /\ e.result = Times(e.amount, e.rate)
            /\ e.result = result

\* ETH at 3100 to USDC at 1, amountIn 2, fee 20 bps, slippage 0.5 %
Scenario3 ==
    /\ app = "SwapApp"
    /\ fromSymbol = "ETH" /\ toSymbol = "USDC"
    /\ Listed(tokens, "ETH") /\ Listed(tokens, "USDC")
    /\ PriceOf(tokens, "ETH") = Num(3100) /\ PriceOf(tokens, "USDC") = Num(1)
    /\ amountIn = Typed("2") /\ slippage = Fin(1, 2)

\* the same pair and amount in the converter, which has no fee and no slippage
Scenario2 ==
    /\ LastConversionShown
    /\ history[1].from = "ETH" /\ history[1].to = "USDC" /\ history[1].amount = Num(2)
    /\ PriceOfC(cTokens, "ETH") = Num(3100) /\ PriceOfC(cTokens, "USDC") = Num(1)

\* C5 as stated: rate = from/to, amountOut = amountIn * rate, feeAmount =
\* amountOut * feeBps/10000, minReceived = amountOut * (1 - slippage/100) -
\* feeAmount; ETH 3100 -> USDC 1, amountIn 2, feeBps 20, slippage 0.5 gives
\* rate 3100, amountOut 6200, feeAmount 12.4, minReceived 6157.6.
C5_AsStated ==
    /\ ConversionFormulas
    /\ Scenario3 => /\ rate = Num(3100) /\ amountOut = Num(6200)
                    /\ platformFee = Fin(124, 10) /\ minReceived = Fin(61576, 10)

\* C5 amended: the same formulas; the example gives minReceived
\* 6200 * 0.995 - 12.4 = 6156.6.
C5_ConversionArithmetic ==
    /\ ConversionFormulas
    /\ Scenario3 => /\ rate = Num(3100) /\ amountOut = Num(6200)
                    /\ platformFee = Fin(124, 10) /\ minReceived = Fin(61566, 10)
    /\ Scenario2 => history[1].rate = Num(3100) /\ result = Num(6200)

C5_Witness == Scenario3 /\ ~loading /\ error = "null"

Min(a, b) == IF a < b THEN a ELSE b

\* C6: the history of the converter holds at most 10 entries, the most recent
\* completed conversions, newest first.
C6_HistoryLastTenNewestFirst ==
    app = "Converter" =>
        /\ Len(history) <= HistoryCap
        /\ Len(history) = Min(HistoryCap, nConv - clearedAt)
        /\ \A i \in 1..Len(history) : history[i].timestamp = nConv - i + 1

\* an eleventh conversion has pushed the oldest entry out
C6_Witness ==
    /\ app = "Converter" /\ op = "convertCurrency"
    /\ nConv - clearedAt > HistoryCap
    /\ Len(history) = HistoryCap /\ history[1].timestamp = nConv

\* C7: an invalid amount (<= 0, NaN, infinite) is guarded: convertCurrency sets
\* no result and records no history entry for it, submit starts no swap for it.
C7_InvalidAmountGuarded ==
    [][ /\ (op' = "convertCurrency" /\ ~ValidPrice(parseFloat(amount)))
            => UNCHANGED <<result, history, storage>>
        /\ (op' = "submit" /\ amountInvalid)
            => UNCHANGED <<balances, pending, submitting>> ]_vars

\* the part of C7 that the swap form does satisfy
C7_SwapFormOnly ==
    [][ /\ (op' = "submit" /\ amountInvalid)
            => UNCHANGED <<balances, pending, submitting>>
        /\ balances' # balances => ValidPrice(pending.amountInNum) ]_vars

\* C8: without a quote for the selected from- or to-currency the conversion
\* does not proceed: convertCurrency leaves result and history as they are,
\* submit starts no swap, and balances only change by a swap of listed tokens.
C8_NoQuoteNoConversion ==
    [][ /\ (op' = "convertCurrency"
              /\ (~ListedC(cTokens, fromCurrency) \/ ~ListedC(cTokens, toCurrency)))
            => UNCHANGED <<result, history, storage>>
        /\ (op' = "submit" /\ (~Listed(tokens, fromSymbol) \/ ~Listed(tokens, toSymbol)))
            => UNCHANGED <<balances, pending, submitting>>
        /\ balances' # balances =>
              Listed(tokens, pending.fromSymbol) /\ Listed(tokens, pending.toSymbol) ]_vars

\* Swap was clicked with a valid amount of a listed token, for a target
\* without a quote, and nothing was started
C8_Witness ==
    /\ app = "SwapApp" /\ op = "submit"
    /\ ~loading /\ error = "null" /\ Len(tokens) > 0
    /\ Listed(tokens, fromSymbol) /\ ~Listed(tokens, toSymbol)
    /\ ~amountInvalid /\ ~amountTooHigh
    /\ pending = NoPending /\ ~submitting /\ balances = DEFAULT_BALANCES

\* C9 as stated: while the from and to selections are equal, no conversion
\* result, history entry or balance change is produced.
C9_AsStated ==
    [][ /\ (op' = "convertCurrency" /\ fromCurrency = toCurrency)
            => UNCHANGED <<result, history, storage>>
        /\ (app = "SwapApp" /\ fromSymbol = toSymbol)
            => UNCHANGED <<balances, pending>> ]_vars

\* C9 amended: a click while the selections are equal produces no result, no
\* history entry and starts no swap; a balance change comes only from a swap
\* that was submitted for two different tokens.
C9_SameCurrencyRejected ==
    [][ /\ (op' = "convertCurrency" /\ fromCurrency = toCurrency)
            => UNCHANGED <<result, history, storage>>
        /\ (op' = "submit" /\ fromSymbol = toSymbol)
            => UNCHANGED <<balances, pending, submitting>>
        /\ pending' # NoPending => pending'.fromSymbol # pending'.toSymbol
        /\ balances' # balances => pending.fromSymbol # pending.toSymbol ]_vars

\* Swap was clicked on equal selections with everything else in order
C9_Witness ==
    /\ app = "SwapApp" /\ op = "submit"
    /\ fromSymbol = toSymbol /\ Listed(tokens, fromSymbol)
    /\ ~loading /\ error = "null" /\ ~amountInvalid /\ ~amountTooHigh
    /\ pending = NoPending /\ ~submitting

\* C11: with the same quote on both sides the rate is 1 and amountOut equals
\* amountIn, and with zero fee and zero slippage minReceived equals amountIn
\* too, for every valid quote and amount.
C11_RoundTripIdentity ==
    /\ app = "SwapApp" /\ fromSymbol = toSymbol /\ Listed(tokens, fromSymbol) =>
          /\ rate = Num(1)
          /\ amountOut = amountInNum
          /\ minReceived = MinReceivedOf(amountOut, slippage, feeBps)
          /\ ~amountInvalid => MinReceivedOf(amountOut, Num(0), 0) = amountInNum
    /\ app = "Converter" =>
          \A i \in 1..Len(cTokens) :
             ValidPrice(cTokens[i].price) /\ ValidPrice(parseFloat(amount)) =>
                Conversion(parseFloat(amount), cTokens[i], cTokens[i])
                   = [rate |-> Num(1), convertedAmount |-> parseFloat(amount)]

\* the same listed token is selected on both sides and a valid amount is typed
C11_Witness ==
    /\ app = "SwapApp" /\ ~loading /\ error = "null"
    /\ fromSymbol = toSymbol /\ Listed(tokens, fromSymbol)
    /\ amountIn = Typed("2") /\ amountOut = Num(2)

\* C14: every started price fetch eventually ends with loading false; when
\* the response is not ok or the request throws, the error message is set and
\* the token list is left as it was; on success the error is cleared; and in
\* the swap form no swap is submitted while loading is true or an error is set.
C14_LoadingAndErrorHandled ==
    /\ (app = "SwapApp" /\ loading) ~> ~loading
    /\ (app = "Converter" /\ cLoading) ~> ~cLoading
    /\ [][ /\ op' = "fetch failed" =>
                 error' # "null" /\ tokens' = tokens /\ ~loading'
           /\ op' = "fetch ok" => error' = "null" /\ ~loading'
           /\ op' = "fetchTokens failed" =>
                 cError' # "" /\ cTokens' = cTokens /\ ~cLoading'
           /\ op' = "fetchTokens ok" => cError' = "" /\ ~cLoading'
           /\ (op' = "submit" /\ (loading \/ error # "null")) =>
                 UNCHANGED <<balances, pending, submitting>>
           /\ (pending' # pending /\ pending' # NoPending) =>
                 (~loading /\ error = "null") ]_vars

\* the fetch of the swap form has failed, and a click on Swap with a valid
\* amount has started nothing
C14_Witness ==
    /\ app = "SwapApp" /\ op = "submit"
    /\ ~loading /\ error # "null" /\ tokens = <<>>
    /\ ~amountInvalid /\ ~amountTooHigh
    /\ pending = NoPending /\ ~submitting /\ balances = DEFAULT_BALANCES

\* at most one submit() is suspended, and it is the one the button shows
OneSubmitInFlight == app = "SwapApp" => (submitting <=> pending # NoPending)

\* C15: after any sequence of swap submissions, with the amount, the tokens or
\* the direction changed during the submit delay, no mock balance is negative:
\* a swap is applied only when the amount captured at submit time does not
\* exceed the from-balance, and at most one submit is in flight.
C15_NoNegativeBalance ==
    /\ \A s \in DOMAIN balances : FLe(Num(0), balances[s])
    /\ pending # NoPending =>
          FLe(pending.amountInNum, BalanceOf(balances, pending.fromSymbol))
    /\ OneSubmitInFlight

\* what the validation does ensure: no balance falls below -1e-12, the amount
\* of a suspended submit exceeds the from-balance by at most 1e-12
C15_NoBalanceBelowEpsilon ==
    /\ \A s \in DOMAIN balances : FLe(FNeg(Epsilon), balances[s])
    /\ pending # NoPending =>
          FLe(pending.amountInNum, FAdd(BalanceOf(balances, pending.fromSymbol), Epsilon))
    /\ OneSubmitInFlight

\* C16: a successful swap changes exactly two balances: the from-token's goes
\* down by the amountIn submitted, the to-token's goes up by max(minReceived,
\* 0) as computed at submit time; every other balance is unchanged, and a
\* submit with canSwap false changes nothing.
C16_SwapChangesTwoBalances ==
    [][ /\ op' = "submit" =>
              /\ balances' = balances
              /\ ~canSwap => UNCHANGED swapVars
              /\ pending' # pending =>
                    pending' = [fromSymbol |-> fromSymbol, toSymbol |-> toSymbol,
                                amountInNum |-> amountInNum, minReceived |-> minReceived]
        /\ balances' # balances => op' = "submit resumed"
        /\ op' = "submit resumed" =>
              LET f == pending.fromSymbol
                  g == pending.toSymbol
              IN /\ f # g
                 /\ DOMAIN balances' = DOMAIN balances \cup {f, g}
                 /\ balances'[f] = FSub(BalanceOf(balances, f), pending.amountInNum)
                 /\ balances'[g] = FAdd(BalanceOf(balances, g),
                                        FMax(pending.minReceived, Num(0)))
                 /\ \A s \in DOMAIN balances \ {f, g} : balances'[s] = balances[s] ]_vars

\* a swap of USDC for ETH was applied after the selections had been flipped
\* during the delay
C16_Witness ==
    /\ app = "SwapApp" /\ op = "submit resumed"
    /\ fromSymbol = "ETH" /\ toSymbol = "USDC"
    /\ FGt(DEFAULT_BALANCES["USDC"], balances["USDC"])
    /\ FGt(balances["ETH"], DEFAULT_BALANCES["ETH"])

\* C18: in the converter, after the initial loadHistory and after every
\* saveToHistory or clearHistory, the session-storage entry is consistent with
\* the history in memory: it holds exactly the current history list after a
\* save, and is absent when the history has been cleared.
C18_StorageHoldsHistory ==
    app = "Converter" =>
        /\ history # <<>> => storage = <<history>>
        /\ history = <<>> => storage = <<>>
        /\ op = "clearHistory" => storage = <<>>

\* what does hold: the entry is the JSON text of the history, in which a
\* number that is not finite is written as null
C18_StorageHoldsJsonOfHistory ==
    app = "Converter" =>
        /\ history # <<>> => storage = <<JsonList(history)>>
        /\ history = <<>> => storage = <<>>
        /\ op = "clearHistory" => storage = <<>>
====
